---- MODULE Spec2Model ----
(***************************************************************************)
(* Board Panel suggestions API (src/src/api.py, src/src/crew.py,           *)
(* src/src/models.py): the job store, the token rate limiter, the retry    *)
(* loop of run_analysis and the suggestion extractor.                      *)
(*                                                                         *)
(* Durations are counted in ticks of 1/TicksPerSecond seconds, so that     *)
(* DELAY_BETWEEN_TASKS (20.15625 s) is a whole number of ticks. The        *)
(* readings of time.time() enter the code only through the difference      *)
(* time.time() - last_request_time, which the model carries in             *)
(* time_since_last, capped at DELAY_BETWEEN_TASKS; the readings of         *)
(* datetime.now() are numbered in the order in which they are taken.       *)
(* Python's None and optional attributes are written as sequences of       *)
(* length 0 (None) or 1 (a value). Strings are sequences of characters.    *)
(***************************************************************************)
EXTENDS Integers, Sequences, FiniteSets, TLC

VARIABLES
    analysis_results,   \* api.py:44   id -> AnalysisStatus record
    request_lock,       \* api.py:57   holder of the asyncio.Lock (None when free)
    time_since_last,    \* api.py:66   time.time() - last_request_time, capped
    datetime_now,       \* the number of the next reading of datetime.now()
    GROQ_API_KEY,       \* crew.py:24  the environment's key ("" when unset)
    running,            \* the coroutine that occupies the event loop (None when it is idle)
    pc,                 \* position of run_analysis(id)
    attempt,            \* api.py:188  loop variable of the retry loop
    task_index,         \* position in ordered_tasks of the sequential kickoff
    outputs,            \* the task outputs collected by the kickoff in progress
    crew_result,        \* api.py:185  None or the kickoff's result
    raised,             \* the exception in flight between raise and except
    sleep_left,         \* what remains of the task's pending asyncio.sleep
    reply,              \* the HTTP response of the handler that just returned
    acquires,           \* history: completed rate_limit_tokens() calls of the job
    called,             \* history: an external call was issued since the job's latest acquire
    attempts,           \* history: iterations of the retry loop the job entered
    sleeps,             \* history: backoff sleeps started by the job
    rate_failures,      \* history: attempts of the job that failed with a rate-limit error
    last_failure,       \* history: the signature of the job's latest failed attempt
    responded,          \* history: a kickoff of the job returned a result
    latest_submit,      \* history: the job whose submission is the latest event
    call_task_output,   \* api.py:76   argument of the call of safe_extract_suggestions
    call_returned       \* api.py:171  None or the value the call returned

vars == <<analysis_results, request_lock, time_since_last, datetime_now, GROQ_API_KEY,
          running, pc, attempt, task_index, outputs, crew_result, raised, sleep_left,
          reply, acquires, called, attempts, sleeps, rate_failures, last_failure,
          responded, latest_submit, call_task_output,
          call_returned>>

----------------------------------------------------------------------------
(* Bounds of the model *)

MaxJobs == 2
TicksPerSecond == 32
CallTime == 160

Jobs == 1 .. MaxJobs
UnknownId == MaxJobs + 1

None == <<>>
Some(x) == <<x>>

----------------------------------------------------------------------------
(* Configuration: api.py:46-53, api.py:176 *)

TOKENS_PER_MINUTE_LIMIT == 8000
ESTIMATED_TOKENS_PER_TASK == 2150
SAFETY_MARGIN_PERCENT == 80
TASKS_PER_ANALYSIS == 5
max_retries == 5

SAFE_TPM == (TOKENS_PER_MINUTE_LIMIT * SAFETY_MARGIN_PERCENT) \div 100
DELAY_BETWEEN_TASKS == (60 * TicksPerSecond * ESTIMATED_TOKENS_PER_TASK) \div SAFE_TPM

----------------------------------------------------------------------------
(* The strings of the code and of the model's messages, character by character *)

\* "rate_limit"
K_rate_limit ==
    <<"r", "a", "t", "e", "_", "l", "i", "m", "i", "t">>
\* "429"
K_429 ==
    <<"4", "2", "9">>
\* "rate limit"
K_rate_limit_sp ==
    <<"r", "a", "t", "e", " ", "l", "i", "m", "i", "t">>
\* "try again in"
K_try_again_in ==
    <<"t", "r", "y", " ", "a", "g", "a", "i", "n", " ", "i", "n">>
\* "s"
K_s ==
    <<"s">>
\* "validation error"
K_validation_error ==
    <<"v", "a", "l", "i", "d", "a", "t", "i", "o", "n", " ", "e", "r", "r",
    "o", "r">>
\* "invalid json"
K_invalid_json ==
    <<"i", "n", "v", "a", "l", "i", "d", " ", "j", "s", "o", "n">>
\* "suggestions"
K_suggestions ==
    <<"s", "u", "g", "g", "e", "s", "t", "i", "o", "n", "s">>
\* ": "
K_colon_sp ==
    <<":", " ">>
\* "Exception"
N_Exception ==
    <<"E", "x", "c", "e", "p", "t", "i", "o", "n">>
\* "ValueError"
N_ValueError ==
    <<"V", "a", "l", "u", "e", "E", "r", "r", "o", "r">>
\* "ValidationError"
N_ValidationError ==
    <<"V", "a", "l", "i", "d", "a", "t", "i", "o", "n", "E", "r", "r", "o",
    "r">>
\* "RateLimitError"
N_RateLimitError ==
    <<"R", "a", "t", "e", "L", "i", "m", "i", "t", "E", "r", "r", "o", "r">>
\* "APIError"
N_APIError ==
    <<"A", "P", "I", "E", "r", "r", "o", "r">>
\* "Rate limit exceeded after "
M_exhausted_a ==
    <<"R", "a", "t", "e", " ", "l", "i", "m", "i", "t", " ", "e", "x", "c",
    "e", "e", "d", "e", "d", " ", "a", "f", "t", "e", "r", " ">>
\* " retries. Please try again in a few minutes."
M_exhausted_b ==
    <<" ", "r", "e", "t", "r", "i", "e", "s", ".", " ", "P", "l", "e", "a",
    "s", "e", " ", "t", "r", "y", " ", "a", "g", "a", "i", "n", " ", "i",
    "n", " ", "a", " ", "f", "e", "w", " ", "m", "i", "n", "u", "t", "e",
    "s", ".">>
\* "Analysis failed: No result returned from crew"
M_no_result ==
    <<"A", "n", "a", "l", "y", "s", "i", "s", " ", "f", "a", "i", "l", "e",
    "d", ":", " ", "N", "o", " ", "r", "e", "s", "u", "l", "t", " ", "r",
    "e", "t", "u", "r", "n", "e", "d", " ", "f", "r", "o", "m", " ", "c",
    "r", "e", "w">>
\* "GROQ_API_KEY not found in environment variables"
M_no_key ==
    <<"G", "R", "O", "Q", "_", "A", "P", "I", "_", "K", "E", "Y", " ", "n",
    "o", "t", " ", "f", "o", "u", "n", "d", " ", "i", "n", " ", "e", "n",
    "v", "i", "r", "o", "n", "m", "e", "n", "t", " ", "v", "a", "r", "i",
    "a", "b", "l", "e", "s">>
\* "validation error for AnalysisResults"
M_results_invalid ==
    <<"v", "a", "l", "i", "d", "a", "t", "i", "o", "n", " ", "e", "r", "r",
    "o", "r", " ", "f", "o", "r", " ", "A", "n", "a", "l", "y", "s", "i",
    "s", "R", "e", "s", "u", "l", "t", "s">>
\* "Rate limit reached"
M_rate_plain ==
    <<"R", "a", "t", "e", " ", "l", "i", "m", "i", "t", " ", "r", "e", "a",
    "c", "h", "e", "d">>
\* "429 Please try again in 30s"
M_rate_30 ==
    <<"4", "2", "9", " ", "P", "l", "e", "a", "s", "e", " ", "t", "r", "y",
    " ", "a", "g", "a", "i", "n", " ", "i", "n", " ", "3", "0", "s">>
\* "rate_limit_exceeded: try again in 7.5s"
M_rate_7 ==
    <<"r", "a", "t", "e", "_", "l", "i", "m", "i", "t", "_", "e", "x", "c",
    "e", "e", "d", "e", "d", ":", " ", "t", "r", "y", " ", "a", "g", "a",
    "i", "n", " ", "i", "n", " ", "7", ".", "5", "s">>
\* "429 try again in 2m3s"
M_rate_odd ==
    <<"4", "2", "9", " ", "t", "r", "y", " ", "a", "g", "a", "i", "n", " ",
    "i", "n", " ", "2", "m", "3", "s">>
\* "429 validation error"
M_rate_and_validation ==
    <<"4", "2", "9", " ", "v", "a", "l", "i", "d", "a", "t", "i", "o", "n",
    " ", "e", "r", "r", "o", "r">>
\* "1 validation error for MarketingSuggestions"
M_validation ==
    <<"1", " ", "v", "a", "l", "i", "d", "a", "t", "i", "o", "n", " ", "e",
    "r", "r", "o", "r", " ", "f", "o", "r", " ", "M", "a", "r", "k", "e",
    "t", "i", "n", "g", "S", "u", "g", "g", "e", "s", "t", "i", "o", "n",
    "s">>
\* "Invalid JSON: EOF"
M_invalid_json ==
    <<"I", "n", "v", "a", "l", "i", "d", " ", "J", "S", "O", "N", ":", " ",
    "E", "O", "F">>
\* "Connection reset"
M_other ==
    <<"C", "o", "n", "n", "e", "c", "t", "i", "o", "n", " ", "r", "e", "s",
    "e", "t">>

----------------------------------------------------------------------------
(* Python str operations used by the code, on strings written as sequences *)
(* of one-character strings. Positions are 0-based as in Python.           *)

Min(a, b) == IF a < b THEN a ELSE b
Max(a, b) == IF a > b THEN a ELSE b

Whitespace == {" ", "\n", "\t", "\r"}
Digits == {"0", "1", "2", "3", "4", "5", "6", "7", "8", "9"}

DigitValue ==
    [c \in Digits |->
        CASE c = "0" -> 0 [] c = "1" -> 1 [] c = "2" -> 2 [] c = "3" -> 3
          [] c = "4" -> 4 [] c = "5" -> 5 [] c = "6" -> 6 [] c = "7" -> 7
          [] c = "8" -> 8 [] c = "9" -> 9]

DigitChar(n) == CHOOSE c \in Digits : DigitValue[c] = n

\* str(n) for n >= 0
RECURSIVE IntToStr(_)
IntToStr(n) == IF n < 10 THEN <<DigitChar(n)>>
               ELSE Append(IntToStr(n \div 10), DigitChar(n % 10))

UpperCase ==
    <<"A", "B", "C", "D", "E", "F", "G", "H", "I", "J", "K", "L", "M",
      "N", "O", "P", "Q", "R", "S", "T", "U", "V", "W", "X", "Y", "Z">>
LowerCase ==
    <<"a", "b", "c", "d", "e", "f", "g", "h", "i", "j", "k", "l", "m",
      "n", "o", "p", "q", "r", "s", "t", "u", "v", "w", "x", "y", "z">>

LowerChar(c) ==
    IF \E i \in 1 .. Len(UpperCase) : UpperCase[i] = c
    THEN LowerCase[CHOOSE i \in 1 .. Len(UpperCase) : UpperCase[i] = c]
    ELSE c

\* s.lower()
Lower(s) == [i \in 1 .. Len(s) |-> LowerChar(s[i])]

\* s[a:b] for 0 <= a
Slice(s, a, b) == SubSeq(s, a + 1, Min(b, Len(s)))

\* the positions at which sub occurs in s
Occurrences(s, sub) ==
    {i \in 0 .. Len(s) - Len(sub) : SubSeq(s, i + 1, i + Len(sub)) = sub}

\* sub in s
Contains(s, sub) == Occurrences(s, sub) # {}

\* s.find(sub)
Find(s, sub) ==
    IF Occurrences(s, sub) = {} THEN -1
    ELSE CHOOSE i \in Occurrences(s, sub) : \A k \in Occurrences(s, sub) : i <= k

\* s.rfind(sub)
RFind(s, sub) ==
    IF Occurrences(s, sub) = {} THEN -1
    ELSE CHOOSE i \in Occurrences(s, sub) : \A k \in Occurrences(s, sub) : i >= k

\* s.count(c) for a one-character c
Count(s, c) == Cardinality({i \in 1 .. Len(s) : s[i] = c})

\* s.lstrip(chars), s.rstrip(chars), s.strip()
LStripChars(s, chars) ==
    IF \A i \in 1 .. Len(s) : s[i] \in chars THEN <<>>
    ELSE SubSeq(s, CHOOSE i \in 1 .. Len(s) :
                      s[i] \notin chars /\ \A k \in 1 .. i - 1 : s[k] \in chars,
                Len(s))
RStripChars(s, chars) ==
    IF \A i \in 1 .. Len(s) : s[i] \in chars THEN <<>>
    ELSE SubSeq(s, 1, CHOOSE i \in 1 .. Len(s) :
                      s[i] \notin chars /\ \A k \in i + 1 .. Len(s) : s[k] \in chars)
Strip(s) == RStripChars(LStripChars(s, Whitespace), Whitespace)

\* s.split(sep)[0] and s.split(sep)[1] (the latter needs sep in s)
SplitFirst(s, sep) ==
    IF Contains(s, sep) THEN Slice(s, 0, Find(s, sep)) ELSE s
SplitSecond(s, sep) ==
    SplitFirst(Slice(s, Find(s, sep) + Len(sep), Len(s)), sep)

\* the value of a sequence of digits
RECURSIVE DigitsValue(_)
DigitsValue(s) == IF s = <<>> THEN 0
                  ELSE 10 * DigitsValue(SubSeq(s, 1, Len(s) - 1)) + DigitValue[s[Len(s)]]

RECURSIVE Pow(_, _)
Pow(b, e) == IF e = 0 THEN 1 ELSE b * Pow(b, e - 1)

\* float(s) for the forms [+-]digits[.digits], in ticks and rounded down to
\* a whole tick; ok is FALSE where float raises ValueError.
ParseFloat(s) ==
    LET signed == s # <<>> /\ s[1] \in {"+", "-"}
        body == IF signed THEN SubSeq(s, 2, Len(s)) ELSE s
        dot == Find(body, <<".">>)
        int == IF dot = -1 THEN body ELSE Slice(body, 0, dot)
        frac == IF dot = -1 THEN <<>> ELSE Slice(body, dot + 1, Len(body))
        wellformed == /\ int # <<>>
                      /\ \A i \in 1 .. Len(int) : int[i] \in Digits
                      /\ \A i \in 1 .. Len(frac) : frac[i] \in Digits
        magnitude == DigitsValue(int) * TicksPerSecond
                     + (DigitsValue(frac) * TicksPerSecond) \div Pow(10, Len(frac))
    IN  IF wellformed
        THEN [ok |-> TRUE, ticks |-> IF signed /\ s[1] = "-" THEN 0 - magnitude ELSE magnitude]
        ELSE [ok |-> FALSE, ticks |-> 0]

----------------------------------------------------------------------------
(* Exceptions: the type name and the message, str(e) *)

Exc(type, msg) == [type |-> type, msg |-> msg]
NoExc == Exc(<<>>, <<>>)

\* the failures the external advisory calls raise
CallErrors ==
    { Exc(N_RateLimitError, M_rate_plain),
      Exc(N_RateLimitError, M_rate_30),
      Exc(N_RateLimitError, M_rate_7),
      Exc(N_APIError, M_rate_odd),
      Exc(N_APIError, M_rate_and_validation),
      Exc(N_ValidationError, M_validation),
      Exc(N_ValueError, M_invalid_json),
      Exc(N_APIError, M_other) }

\* api.py:206
IsRateLimit(error_str) ==
    \/ Contains(error_str, K_rate_limit)
    \/ Contains(error_str, K_429)
    \/ Contains(error_str, K_rate_limit_sp)

\* api.py:226
IsValidation(error_str) ==
    \/ Contains(error_str, K_validation_error)
    \/ Contains(error_str, K_invalid_json)

\* a variant with the validation test first
FailureKindValidationFirst(error_str) ==
    IF IsValidation(error_str) THEN "validation"
    ELSE IF IsRateLimit(error_str) THEN "rate_limit"
    ELSE "other"

\* api.py:206, 226  the signature of the failure: the rate-limit test comes first
FailureKind(error_str) ==
    IF IsRateLimit(error_str) THEN "rate_limit"
    ELSE IF IsValidation(error_str) THEN "validation"
    ELSE "other"

\* Handling with the validation branch retrying like the rate-limit branch
HandlingValidationRetried(kind, n) ==
    CASE kind \in {"rate_limit", "validation"} ->
             IF n < max_retries - 1 THEN "retry" ELSE "exhausted"
      [] OTHER -> "raise"

\* Handling with the rate-limit branch re-raising at once
HandlingRateLimitRaised(kind, n) ==
    CASE kind = "validation" -> "break"
      [] OTHER -> "raise"

\* Handling with the test of the remaining attempts off by one
HandlingOneRetryMore(kind, n) ==
    CASE kind = "rate_limit" -> IF n < max_retries THEN "retry" ELSE "exhausted"
      [] kind = "validation" -> "break"
      [] OTHER -> "raise"

\* api.py:206-232  what the except clause does with a failure of iteration n
Handling(kind, n) ==
    CASE kind = "rate_limit" -> IF n < max_retries - 1 THEN "retry" ELSE "exhausted"
      [] kind = "validation" -> "break"
      [] OTHER -> "raise"

\* api.py:209-215, in ticks
WaitTime(error_str) ==
    LET parts == Strip(SplitFirst(SplitSecond(error_str, K_try_again_in), K_s))
    IN  IF Contains(error_str, K_try_again_in) /\ ParseFloat(parts).ok
        THEN ParseFloat(parts).ticks + 2 * TicksPerSecond
        ELSE 10 * TicksPerSecond

\* a variant without the exponential floor
BackoffDelayWaitOnly(error_str, n) == WaitTime(error_str)

\* api.py:218, in ticks
BackoffDelay(error_str, n) ==
    Max(WaitTime(error_str), 10 * Pow(2, n) * TicksPerSecond)

\* the backoff delay of every failure in every iteration of the retry loop, computed once
BackoffDelays ==
    [e \in CallErrors, n \in 0 .. max_retries - 1 |-> BackoffDelay(Lower(e.msg), n)]

\* api.py:223
RetriesExhausted ==
    Exc(N_Exception, M_exhausted_a \o IntToStr(max_retries) \o M_exhausted_b)

\* api.py:235
NoResult == Exc(N_Exception, M_no_result)

\* crew.py:28
MissingKey == Exc(N_ValueError, M_no_key)

\* the signature of every failure the retry loop may catch, computed once
FailureKinds == [e \in CallErrors \cup {MissingKey} |-> FailureKind(Lower(e.msg))]

----------------------------------------------------------------------------
(* Python values: None, str, numbers, bool, list, dict and the pydantic     *)
(* suggestion models. A str carries its characters, a list its items, a    *)
(* dict its entries in insertion order, a model its suggestions.           *)

PyNone == [t |-> "none", chars |-> <<>>, items |-> <<>>]
PyStr(s) == [t |-> "str", chars |-> s, items |-> <<>>]
PyNum(s) == [t |-> "num", chars |-> s, items |-> <<>>]
PyBool(s) == [t |-> "bool", chars |-> s, items |-> <<>>]
PyList(items) == [t |-> "list", chars |-> <<>>, items |-> items]
PyDict(entries) == [t |-> "dict", chars |-> <<>>, items |-> entries]
PyModel(suggestions) == [t |-> "model", chars |-> <<>>, items |-> suggestions]
PyObject == [t |-> "object", chars |-> <<>>, items |-> <<>>]

\* bool(v)
Truthy(v) ==
    CASE v.t = "none" -> FALSE
      [] v.t = "str" -> v.chars # <<>>
      [] v.t = "num" -> \E i \in 1 .. Len(v.chars) : v.chars[i] \in Digits \ {"0"}
      [] v.t = "bool" -> v.chars = <<"t", "r", "u", "e">>
      [] v.t \in {"list", "dict"} -> v.items # <<>>
      [] OTHER -> TRUE

\* key in d, d[key] for a dict d: the last entry with that key
HasKey(d, key) == \E i \in 1 .. Len(d.items) : d.items[i].key = key
GetKey(d, key) ==
    d.items[CHOOSE i \in 1 .. Len(d.items) :
                /\ d.items[i].key = key
                /\ \A k \in i + 1 .. Len(d.items) : d.items[k].key # key].val

----------------------------------------------------------------------------
(* json.loads, as CPython's decoder scans: the value or the position of    *)
(* the JSONDecodeError. Strings are taken without backslash escapes.       *)

JsonOk(v, end) == [ok |-> TRUE, val |-> v, end |-> end]
JsonError(pos) == [ok |-> FALSE, val |-> PyNone, end |-> pos]

\* s[i:i+1]
At(s, i) == IF i < Len(s) THEN s[i + 1] ELSE ""

\* the first position from i on that holds no JSON whitespace
SkipWhitespace(s, i) ==
    CHOOSE k \in i .. Max(i, Len(s)) :
        /\ At(s, k) \notin Whitespace
        /\ \A m \in i .. k - 1 : At(s, m) \in Whitespace

\* s[i:].startswith(word)
StartsWith(s, i, word) == Slice(s, i, i + Len(word)) = word

\* the string whose opening quote is at begin
ScanString(s, begin) ==
    LET stops == {k \in begin + 1 .. Len(s) - 1 : At(s, k) \in {"\"", "\n", "\t", "\r"}}
        stop == CHOOSE k \in stops : \A m \in stops : k <= m
    IN  IF stops = {} THEN JsonError(begin)
        ELSE IF At(s, stop) = "\"" THEN JsonOk(PyStr(Slice(s, begin + 1, stop)), stop + 1)
        ELSE JsonError(stop)

\* the end of the digits that start at i
DigitsEnd(s, i) ==
    CHOOSE k \in i .. Max(i, Len(s)) :
        /\ At(s, k) \notin Digits
        /\ \A m \in i .. k - 1 : At(s, m) \in Digits

\* the number that starts at idx: -?(0|[1-9][0-9]*)(.[0-9]+)?([eE][-+]?[0-9]+)?
ScanNumber(s, idx) ==
    LET start == IF At(s, idx) = "-" THEN idx + 1 ELSE idx
        intEnd == IF At(s, start) = "0" THEN start + 1 ELSE DigitsEnd(s, start)
        fracEnd == IF At(s, intEnd) = "." /\ DigitsEnd(s, intEnd + 1) > intEnd + 1
                   THEN DigitsEnd(s, intEnd + 1) ELSE intEnd
        expStart == IF At(s, fracEnd + 1) \in {"-", "+"} THEN fracEnd + 2 ELSE fracEnd + 1
        expEnd == IF At(s, fracEnd) \in {"e", "E"} /\ DigitsEnd(s, expStart) > expStart
                  THEN DigitsEnd(s, expStart) ELSE fracEnd
    IN  IF intEnd = start THEN JsonError(idx)
        ELSE JsonOk(PyNum(Slice(s, idx, expEnd)), expEnd)

JsonLiterals ==
    << [word |-> <<"n", "u", "l", "l">>, val |-> PyNone],
       [word |-> <<"t", "r", "u", "e">>, val |-> PyBool(<<"t", "r", "u", "e">>)],
       [word |-> <<"f", "a", "l", "s", "e">>, val |-> PyBool(<<"f", "a", "l", "s", "e">>)],
       [word |-> <<"N", "a", "N">>, val |-> PyNum(<<"N", "a", "N">>)],
       [word |-> <<"I", "n", "f", "i", "n", "i", "t", "y">>,
        val |-> PyNum(<<"I", "n", "f", "i", "n", "i", "t", "y">>)],
       [word |-> <<"-", "I", "n", "f", "i", "n", "i", "t", "y">>,
        val |-> PyNum(<<"-", "I", "n", "f", "i", "n", "i", "t", "y">>)] >>

RECURSIVE ScanOnce(_, _), ObjectLoop(_, _, _), ArrayLoop(_, _, _)

\* the JSON value that starts at idx
ScanOnce(s, idx) ==
    LET c == At(s, idx)
        lits == {i \in 1 .. Len(JsonLiterals) : StartsWith(s, idx, JsonLiterals[i].word)}
        lit == JsonLiterals[CHOOSE i \in lits : TRUE]
    IN  CASE c = "" -> JsonError(idx)
          [] c = "\"" -> ScanString(s, idx)
          [] c = "{" ->
                IF At(s, SkipWhitespace(s, idx + 1)) = "}"
                THEN JsonOk(PyDict(<<>>), SkipWhitespace(s, idx + 1) + 1)
                ELSE ObjectLoop(s, SkipWhitespace(s, idx + 1), <<>>)
          [] c = "[" ->
                IF At(s, SkipWhitespace(s, idx + 1)) = "]"
                THEN JsonOk(PyList(<<>>), SkipWhitespace(s, idx + 1) + 1)
                ELSE ArrayLoop(s, SkipWhitespace(s, idx + 1), <<>>)
          [] OTHER ->
                IF lits # {} THEN JsonOk(lit.val, idx + Len(lit.word))
                ELSE ScanNumber(s, idx)

\* the members of an object from the key at idx on
ObjectLoop(s, idx, entries) ==
    IF At(s, idx) # "\"" THEN JsonError(idx)
    ELSE LET key == ScanString(s, idx)
             colon == SkipWhitespace(s, key.end)
             val == ScanOnce(s, SkipWhitespace(s, colon + 1))
             after == SkipWhitespace(s, val.end)
             all == Append(entries, [key |-> key.val.chars, val |-> val.val])
         IN  IF ~key.ok THEN key
             ELSE IF At(s, colon) # ":" THEN JsonError(colon)
             ELSE IF ~val.ok THEN val
             ELSE IF At(s, after) = "}" THEN JsonOk(PyDict(all), after + 1)
             ELSE IF At(s, after) # "," THEN JsonError(after)
             ELSE ObjectLoop(s, SkipWhitespace(s, after + 1), all)

\* the items of an array from the value at idx on
ArrayLoop(s, idx, items) ==
    LET val == ScanOnce(s, idx)
        after == SkipWhitespace(s, val.end)
        all == Append(items, val.val)
    IN  IF ~val.ok THEN val
        ELSE IF At(s, after) = "]" THEN JsonOk(PyList(all), after + 1)
        ELSE IF At(s, after) # "," THEN JsonError(after)
        ELSE ArrayLoop(s, SkipWhitespace(s, after + 1), all)

\* the decoded value, unless text follows it
WholeText(s, first) ==
    IF ~first.ok THEN first
    ELSE IF SkipWhitespace(s, first.end) # Len(s) THEN JsonError(SkipWhitespace(s, first.end))
    ELSE first

\* json.loads(s): ok with the value, or not ok with e.pos in end
JsonLoads(s) == WholeText(s, ScanOnce(s, SkipWhitespace(s, 0)))
----------------------------------------------------------------------------
(* safe_extract_suggestions: api.py:76-171 *)

\* a task output: each attribute is None when the object has no such
\* attribute, and Some(value) otherwise
TaskOutput(pydantic, raw, output) == [pydantic |-> pydantic, raw |-> raw, output |-> output]

\* Python's None in the place of a task output: it has none of the attributes
NoTaskOutput == TaskOutput(None, None, None)

\* the result of one extraction path: found is FALSE when the path falls through,
\* raised is TRUE when it leaves through the outer except clause (api.py:166),
\* after which the function returns the empty list
Found(v) == [found |-> TRUE, raised |-> FALSE, val |-> v]
NotFound == [found |-> FALSE, raised |-> FALSE, val |-> PyNone]
\* Raised without the outer except clause: the exception leaves the function
RaisedUncaught ==
    [found |-> FALSE, raised |-> TRUE, val |-> [t |-> "exception", chars |-> <<>>, items |-> <<>>]]
Raised == [found |-> FALSE, raised |-> TRUE, val |-> PyList(<<>>)]

\* the first of two paths that returns or raises
OrElse(first, second) == IF first.found \/ first.raised THEN first ELSE second

\* api.py:81-87  Method 1: the pydantic model
FromPydantic(task_output) ==
    IF /\ task_output.pydantic # None
       /\ Truthy(task_output.pydantic[1])
       /\ task_output.pydantic[1].t = "model"
       /\ task_output.pydantic[1].items # <<>>
    THEN Found(PyList(task_output.pydantic[1].items))
    ELSE NotFound

\* api.py:107-110, 127-130  'suggestions' in parsed and isinstance(parsed['suggestions'], list)
SuggestionsList(parsed) ==
    IF /\ parsed.ok
       /\ parsed.val.t = "dict"
       /\ HasKey(parsed.val, K_suggestions)
       /\ GetKey(parsed.val, K_suggestions).t = "list"
    THEN Found(GetKey(parsed.val, K_suggestions))
    ELSE NotFound

\* api.py:97-101  json_start, json_end and raw_text[json_start:json_end]
json_start(raw_text) == Find(raw_text, <<"{">>)
json_end(raw_text) == RFind(raw_text, <<"}">>) + 1
json_str(raw_text) == Slice(raw_text, json_start(raw_text), json_end(raw_text))

\* api.py:121-124  close the brackets left open
CloseBrackets(truncated) ==
    IF Count(truncated, "[") > Count(truncated, "]") THEN truncated \o <<"\"", "]", "}">>
    ELSE IF Count(truncated, "{") > Count(truncated, "}") THEN truncated \o <<"}">>
    ELSE truncated

\* api.py:105-132  the suggestions of the parsed object; after a JSONDecodeError
\* the text is cut at e.pos, closed and parsed again
FromParsed(raw_text, parsed) ==
    IF parsed.ok THEN SuggestionsList(parsed)
    ELSE SuggestionsList(JsonLoads(CloseBrackets(
             Slice(raw_text, json_start(raw_text), parsed.end))))

\* api.py:95-132  the JSON object between the first "{" and the last "}"
FromRawJson(raw_text) ==
    IF json_start(raw_text) # -1 /\ json_end(raw_text) > json_start(raw_text)
    THEN FromParsed(raw_text, JsonLoads(json_str(raw_text)))
    ELSE NotFound

\* raw_text.split('\n')
RECURSIVE SplitLines(_)
SplitLines(s) ==
    IF Contains(s, <<"\n">>)
    THEN <<Slice(s, 0, Find(s, <<"\n">>))>>
         \o SplitLines(Slice(s, Find(s, <<"\n">>) + 1, Len(s)))
    ELSE <<s>>

\* stands for the bullet U+2022, which a TLA+ string cannot hold
Bullet == "~"

ListMarkers == Digits \cup {".", "-", Bullet, ")", " "}

\* api.py:139-145  the suggestion of one line: <<>> when the line is no list item
\* LineSuggestion that keeps the lines of 20 characters too
LineSuggestionAtLeast20(text) ==
    LET line == Strip(text)
        cleaned == Strip(LStripChars(line, ListMarkers))
    IN  IF /\ line # <<>>
           /\ line[1] \in Digits \cup {"-", Bullet}
           /\ Len(cleaned) >= 20
        THEN <<PyStr(cleaned)>>
        ELSE <<>>

LineSuggestion(text) ==
    LET line == Strip(text)
        cleaned == Strip(LStripChars(line, ListMarkers))
    IN  IF /\ line # <<>>
           /\ line[1] \in Digits \cup {"-", Bullet}
           /\ Len(cleaned) > 20
        THEN <<PyStr(cleaned)>>
        ELSE <<>>

RECURSIVE LineSuggestions(_)
LineSuggestions(lines) ==
    IF lines = <<>> THEN <<>>
    ELSE LineSuggestion(Head(lines)) \o LineSuggestions(Tail(lines))

\* api.py:135-149  the numbered or bulleted lines of the text
FromTextList(raw_text, fallback_count) ==
    LET suggestions == LineSuggestions(SplitLines(raw_text))
    IN  IF Len(suggestions) >= 3
        THEN Found(PyList(SubSeq(suggestions, 1, Min(fallback_count, Len(suggestions)))))
        ELSE NotFound

\* api.py:90-151  Method 2: the raw output; len(raw_text) raises for a raw that is no str
FromRaw(task_output, fallback_count) ==
    IF task_output.raw = None THEN NotFound
    ELSE IF task_output.raw[1].t # "str" THEN Raised
    ELSE OrElse(FromRawJson(task_output.raw[1].chars),
                FromTextList(task_output.raw[1].chars, fallback_count))

\* 'suggestions' in parsed, where it does not raise TypeError
InValue(parsed) ==
    CASE parsed.t = "dict" -> HasKey(parsed, K_suggestions)
      [] parsed.t = "list" -> \E i \in 1 .. Len(parsed.items) :
                                  parsed.items[i] = PyStr(K_suggestions)
      [] parsed.t = "str" -> Contains(parsed.chars, K_suggestions)
      [] OTHER -> FALSE

\* api.py:159-162  'suggestions' in parsed, parsed['suggestions'] and its len();
\* a TypeError of one of them is passed over (api.py:163)
OutputSuggestions(parsed) ==
    IF /\ parsed.ok
       /\ InValue(parsed.val)
       /\ parsed.val.t = "dict"
       /\ GetKey(parsed.val, K_suggestions).t \in {"list", "str", "dict"}
    THEN Found(GetKey(parsed.val, K_suggestions))
    ELSE NotFound

\* api.py:154-164  Method 3: the output attribute; what raises is passed over
FromOutput(task_output) ==
    IF task_output.output = None \/ task_output.output[1].t # "str" THEN NotFound
    ELSE OutputSuggestions(JsonLoads(task_output.output[1].chars))

\* api.py:76-171
\* a variant that consults the output attribute first
safe_extract_output_first(task_output, fallback_count) ==
    OrElse(FromOutput(task_output),
           OrElse(FromPydantic(task_output),
                  OrElse(FromRaw(task_output, fallback_count), Found(PyList(<<>>))))).val

safe_extract_suggestions(task_output, fallback_count) ==
    OrElse(FromPydantic(task_output),
           OrElse(FromRaw(task_output, fallback_count),
                  OrElse(FromOutput(task_output), Found(PyList(<<>>))))).val
----------------------------------------------------------------------------
(* The raw texts of the model's task outputs *)

\* '{}'
T_empty_object ==
    <<"{", "}">>
\* 'Here: {"suggestions": ["x","y","z"]} trailing'
T_embedded_json ==
    <<"H", "e", "r", "e", ":", " ", "{", "\"", "s", "u", "g", "g", "e",
    "s", "t", "i", "o", "n", "s", "\"", ":", " ", "[", "\"", "x", "\"",
    ",", "\"", "y", "\"", ",", "\"", "z", "\"", "]", "}", " ", "t", "r",
    "a", "i", "l", "i", "n", "g">>
\* '{"suggestions": [1, 2, 3]}'
T_numbers ==
    <<"{", "\"", "s", "u", "g", "g", "e", "s", "t", "i", "o", "n", "s",
    "\"", ":", " ", "[", "1", ",", " ", "2", ",", " ", "3", "]", "}">>
\* 'Ideas:\n- aaaaaaaaaaaaaaaaaaaaa\n2. bbbbbbbbbbbbbbbbbbbbbb\n(bullet) ccccccccccccccccccccc\n- short\n3) ddddddddddddddddddddd'
T_bullets_4 ==
    <<"I", "d", "e", "a", "s", ":", "\n", "-", " ", "a", "a", "a", "a",
    "a", "a", "a", "a", "a", "a", "a", "a", "a", "a", "a", "a", "a", "a",
    "a", "a", "a", "\n", "2", ".", " ", "b", "b", "b", "b", "b", "b", "b",
    "b", "b", "b", "b", "b", "b", "b", "b", "b", "b", "b", "b", "b", "b",
    "b", "\n", Bullet, " ", "c", "c", "c", "c", "c", "c", "c", "c", "c", "c",
    "c", "c", "c", "c", "c", "c", "c", "c", "c", "c", "c", "\n", "-", " ",
    "s", "h", "o", "r", "t", "\n", "3", ")", " ", "d", "d", "d", "d", "d",
    "d", "d", "d", "d", "d", "d", "d", "d", "d", "d", "d", "d", "d", "d",
    "d", "d">>
\* '- aaaaaaaaaaaaaaaaaaaaa\n- bbbbbbbbbbbbbbbbbbbbb'
T_bullets_2 ==
    <<"-", " ", "a", "a", "a", "a", "a", "a", "a", "a", "a", "a", "a", "a",
    "a", "a", "a", "a", "a", "a", "a", "a", "a", "\n", "-", " ", "b", "b",
    "b", "b", "b", "b", "b", "b", "b", "b", "b", "b", "b", "b", "b", "b",
    "b", "b", "b", "b", "b">>
\* 'no suggestions here'
T_no_json ==
    <<"n", "o", " ", "s", "u", "g", "g", "e", "s", "t", "i", "o", "n", "s",
    " ", "h", "e", "r", "e">>
\* '{"suggestions": ["x","y"'
T_truncated ==
    <<"{", "\"", "s", "u", "g", "g", "e", "s", "t", "i", "o", "n", "s",
    "\"", ":", " ", "[", "\"", "x", "\"", ",", "\"", "y", "\"">>
\* '{"suggestions": ["p","q","r"]} }'
T_extra_brace ==
    <<"{", "\"", "s", "u", "g", "g", "e", "s", "t", "i", "o", "n", "s",
    "\"", ":", " ", "[", "\"", "p", "\"", ",", "\"", "q", "\"", ",", "\"",
    "r", "\"", "]", "}", " ", "}">>
\* '{"suggestions": ["u","v"]}'
T_two_items ==
    <<"{", "\"", "s", "u", "g", "g", "e", "s", "t", "i", "o", "n", "s",
    "\"", ":", " ", "[", "\"", "u", "\"", ",", "\"", "v", "\"", "]", "}">>
\* '{"suggestions": "abc"}'
T_output_str ==
    <<"{", "\"", "s", "u", "g", "g", "e", "s", "t", "i", "o", "n", "s",
    "\"", ":", " ", "\"", "a", "b", "c", "\"", "}">>

----------------------------------------------------------------------------
(* The task outputs the external advisor returns in this model *)

\* a structured payload: five suggestions tag1 .. tag5, as models.py:53-70 admits
Structured(tag, n) ==
    TaskOutput(Some(PyModel([i \in 1 .. n |-> PyStr(<<tag, DigitChar(i)>>)])),
               Some(PyStr(T_empty_object)), None)

RawOnly(text) == TaskOutput(Some(PyNone), Some(PyStr(text)), None)

TaskOutputs ==
    << Structured("m", 5),                                    \*  1
       Structured("t", 5),                                    \*  2
       Structured("o", 5),                                    \*  3
       Structured("c", 5),                                    \*  4
       Structured("f", 5),                                    \*  5
       Structured("k", 3),                                    \*  6
       RawOnly(T_embedded_json),                              \*  7
       RawOnly(T_numbers),                                    \*  8
       RawOnly(T_bullets_4),                                  \*  9
       RawOnly(T_no_json),                                    \* 10
       RawOnly(T_truncated),                                  \* 11
       TaskOutput(None, None, Some(PyStr(T_output_str))),     \* 12
       RawOnly(T_bullets_2),                                  \* 13
       RawOnly(T_extra_brace),                                \* 14
       RawOnly(T_two_items) >>                                \* 15

\* the sequences of task outputs one kickoff may produce
CrewRuns ==
    { <<1, 2, 3, 4, 5>>,
      <<1, 7, 9, 10, 11>>,
      <<1, 8, 3, 4, 5>>,
      <<10, 13, 11, 10, 10>>,
      <<6, 14, 9, 10, 13>>,
      <<6, 14, 12, 10, 10>>,
      <<15, 10, 10, 10, 10>> }

\* the outputs the next task may add to those collected so far
NextOutputs(collected) ==
    {run[Len(collected) + 1] :
        run \in {r \in CrewRuns : SubSeq(r, 1, Len(collected)) = collected}}

\* how many task outputs the crew's result may carry
ReturnedCounts == {0, 3, TASKS_PER_ANALYSIS}

\* crew.py:138-144
ordered_tasks ==
    <<"marketing_analysis_task", "tech_analysis_task", "org_hr_analysis_task",
      "competitive_analysis_task", "finance_analysis_task">>

\* the extraction of every task output of the model, computed once
Extracted == [r \in 1 .. Len(TaskOutputs) |-> safe_extract_suggestions(TaskOutputs[r], 5)]

\* a variant that reads the output after the one of the category
ExtractAtNextOutput(tasks_output, i) ==
    IF Len(tasks_output) > i + 1 THEN Extracted[tasks_output[i + 2]]
    ELSE safe_extract_suggestions(NoTaskOutput, 5)

\* api.py:245-264  tasks_output[i] if len(tasks_output) > i else None
ExtractAt(tasks_output, i) ==
    IF Len(tasks_output) > i THEN Extracted[tasks_output[i + 1]]
    ELSE safe_extract_suggestions(NoTaskOutput, 5)

\* api.py:245-264  the five extractions, in the order of the categories
ExtractAll(tasks_output) ==
    [i \in 1 .. TASKS_PER_ANALYSIS |-> ExtractAt(tasks_output, i - 1)]

\* models.py:160-166  List[str] fields: pydantic accepts a list of str only
AnalysisResultsValid(extracted) ==
    \A i \in 1 .. Len(extracted) :
        /\ extracted[i].t = "list"
        /\ \A k \in 1 .. Len(extracted[i].items) : extracted[i].items[k].t = "str"

Strings(v) == [k \in 1 .. Len(v.items) |-> v.items[k].chars]

\* api.py:267-273
AnalysisResults(extracted) ==
    [marketing_suggestions |-> Strings(extracted[1]),
     tech_suggestions |-> Strings(extracted[2]),
     org_hr_suggestions |-> Strings(extracted[3]),
     competitive_suggestions |-> Strings(extracted[4]),
     finance_suggestions |-> Strings(extracted[5])]

\* the ValidationError of AnalysisResults(...)
ResultsInvalid == Exc(N_ValidationError, M_results_invalid)

----------------------------------------------------------------------------
(* The job store and the HTTP handlers: api.py:316-350 *)

\* models.py:180-186
\* a variant whose error starts as the empty string
AnalysisStatusEmptyError(id, status, submitted_at) ==
    [analysis_id |-> id, status |-> status, submitted_at |-> submitted_at,
     completed_at |-> None, result |-> None, error |-> Some(<<>>)]

AnalysisStatus(id, status, submitted_at) ==
    [analysis_id |-> id, status |-> status, submitted_at |-> submitted_at,
     completed_at |-> None, result |-> None, error |-> None]

NoReply == [code |-> 0, analysis_id |-> UnknownId, status |-> "", body |-> None]

Submitted == DOMAIN analysis_results

\* api.py:44, 57-58: an empty store, a free lock, last_request_time = 0
ServerInit ==
    /\ analysis_results = <<>>
    /\ request_lock = None
    /\ time_since_last = DELAY_BETWEEN_TASKS
    /\ datetime_now = 1
    /\ GROQ_API_KEY \in {"", "gsk"}
    /\ running = None
    /\ pc = [j \in Jobs |-> "none"]
    /\ attempt = [j \in Jobs |-> 0]
    /\ task_index = [j \in Jobs |-> 0]
    /\ outputs = [j \in Jobs |-> <<>>]
    /\ crew_result = [j \in Jobs |-> None]
    /\ raised = [j \in Jobs |-> NoExc]
    /\ sleep_left = [j \in Jobs |-> 0]
    /\ reply = NoReply
    /\ acquires = [j \in Jobs |-> 0]
    /\ called = [j \in Jobs |-> FALSE]
    /\ attempts = [j \in Jobs |-> 0]
    /\ sleeps = [j \in Jobs |-> 0]
    /\ rate_failures = [j \in Jobs |-> 0]
    /\ last_failure = [j \in Jobs |-> "none"]
    /\ responded = [j \in Jobs |-> FALSE]
    /\ latest_submit = None

\* the server at its start; no call of safe_extract_suggestions is singled out
Init ==
    /\ ServerInit
    /\ call_task_output = NoTaskOutput
    /\ call_returned = None

limiter_vars == <<request_lock, time_since_last>>
local_vars == <<attempt, task_index, outputs, crew_result, raised, sleep_left>>
history_vars == <<acquires, called, attempts, sleeps, rate_failures, last_failure, responded>>

\* FreshIds with ids that may repeat
RepeatedIds == Jobs

\* api.py:322  str(uuid.uuid4()): an id that no earlier request was given
FreshIds == Jobs \ Submitted

\* api.py:316-338  POST /api/analyze
analyze(j) ==
    /\ running = None
    /\ j \in FreshIds
    /\ analysis_results' = (j :> AnalysisStatus(j, "queued", datetime_now)) @@ analysis_results
    /\ datetime_now' = datetime_now + 1
    /\ pc' = [pc EXCEPT ![j] = "scheduled"]
    /\ reply' = [code |-> 200, analysis_id |-> j, status |-> "queued", body |-> None]
    /\ latest_submit' = Some(j)
    /\ UNCHANGED <<limiter_vars, local_vars, history_vars, GROQ_API_KEY,
                   call_task_output, call_returned,
                   running>>

\* a variant that answers 404 until the job has ended
get_results_ended_only(id) ==
    /\ running = None
    /\ reply' = IF id \notin Submitted \/ analysis_results[id].completed_at = None
                THEN [code |-> 404, analysis_id |-> id, status |-> "", body |-> None]
                ELSE [code |-> 200, analysis_id |-> id,
                      status |-> analysis_results[id].status,
                      body |-> Some(analysis_results[id])]
    /\ latest_submit' = None
    /\ UNCHANGED <<analysis_results, limiter_vars, local_vars, history_vars,
                   datetime_now, GROQ_API_KEY,
                   call_task_output, call_returned, running, pc>>

\* api.py:341-350  GET /api/results/{analysis_id}
get_results(id) ==
    /\ running = None
    /\ reply' = IF id \notin Submitted
                THEN [code |-> 404, analysis_id |-> id, status |-> "", body |-> None]
                ELSE [code |-> 200, analysis_id |-> id,
                      status |-> analysis_results[id].status,
                      body |-> Some(analysis_results[id])]
    /\ latest_submit' = None
    /\ UNCHANGED <<analysis_results, limiter_vars, local_vars, history_vars,
                   datetime_now, GROQ_API_KEY,
                   call_task_output, call_returned, running, pc>>

----------------------------------------------------------------------------
(* rate_limit_tokens: api.py:61-73 *)

Sleeping(j) == pc[j] \in {"rate_sleep", "backoff"}

\* d ticks pass for every pending asyncio.sleep
SleepLeftAfter(d) ==
    [j \in Jobs |-> IF Sleeping(j) THEN Max(0, sleep_left[j] - d) ELSE sleep_left[j]]

\* wait_time cut short
wait_time_halved == (DELAY_BETWEEN_TASKS - time_since_last) \div 2

\* api.py:69
wait_time == DELAY_BETWEEN_TASKS - time_since_last

\* api.py:64  the lock is held by another task: wait for it
LockWait(j) ==
    /\ running = Some(j)
    /\ pc[j] = "acquire"
    /\ request_lock # None
    /\ pc' = [pc EXCEPT ![j] = "lock_wait"]
    /\ running' = None
    /\ reply' = NoReply
    /\ UNCHANGED <<analysis_results, limiter_vars, local_vars, history_vars,
                   datetime_now, GROQ_API_KEY,
                   latest_submit, call_task_output, call_returned>>

\* a variant that reads the clock without taking the lock first
LockEnterUnlocked(j) ==
    /\ \/ running = Some(j) /\ pc[j] = "acquire"
       \/ running = None /\ pc[j] = "lock_wait"
    /\ request_lock' = Some(j)
    /\ IF time_since_last < DELAY_BETWEEN_TASKS
       THEN /\ sleep_left' = [sleep_left EXCEPT ![j] = wait_time]
            /\ pc' = [pc EXCEPT ![j] = "rate_sleep"]
            /\ running' = None
       ELSE /\ sleep_left' = sleep_left
            /\ pc' = [pc EXCEPT ![j] = "stamp"]
            /\ running' = Some(j)
    /\ reply' = NoReply
    /\ UNCHANGED <<analysis_results, time_since_last, attempt, task_index, outputs,
                   crew_result, raised, history_vars, datetime_now, GROQ_API_KEY,
                   latest_submit, call_task_output, call_returned>>

\* api.py:64-71  take the lock, read the clock, sleep when the last request is recent
LockEnter(j) ==
    /\ \/ running = Some(j) /\ pc[j] = "acquire"
       \/ running = None /\ pc[j] = "lock_wait"
    /\ request_lock = None
    /\ request_lock' = Some(j)
    /\ IF time_since_last < DELAY_BETWEEN_TASKS
       THEN /\ sleep_left' = [sleep_left EXCEPT ![j] = wait_time]
            /\ pc' = [pc EXCEPT ![j] = "rate_sleep"]
            /\ running' = None
       ELSE /\ sleep_left' = sleep_left
            /\ pc' = [pc EXCEPT ![j] = "stamp"]
            /\ running' = Some(j)
    /\ reply' = NoReply
    /\ UNCHANGED <<analysis_results, time_since_last, attempt, task_index, outputs,
                   crew_result, raised, history_vars, datetime_now, GROQ_API_KEY,
                   latest_submit, call_task_output, call_returned>>

\* a variant that returns without leaving the lock
StampKeepingLock(j) ==
    /\ \/ running = Some(j) /\ pc[j] = "stamp"
       \/ running = None /\ pc[j] = "rate_sleep" /\ sleep_left[j] = 0
    /\ time_since_last' = 0
    /\ acquires' = [acquires EXCEPT ![j] = @ + 1]
    /\ called' = [called EXCEPT ![j] = FALSE]
    /\ pc' = [pc EXCEPT ![j] = "crew"]
    /\ running' = Some(j)
    /\ reply' = NoReply
    /\ UNCHANGED <<analysis_results, request_lock, local_vars, attempts, sleeps,
                   rate_failures, last_failure, responded, datetime_now, GROQ_API_KEY,
                   latest_submit, call_task_output, call_returned>>

\* api.py:73  last_request_time = time.time(); leave the lock and return
Stamp(j) ==
    /\ \/ running = Some(j) /\ pc[j] = "stamp"
       \/ running = None /\ pc[j] = "rate_sleep" /\ sleep_left[j] = 0
    /\ time_since_last' = 0
    /\ request_lock' = None
    /\ acquires' = [acquires EXCEPT ![j] = @ + 1]
    /\ called' = [called EXCEPT ![j] = FALSE]
    /\ pc' = [pc EXCEPT ![j] = "crew"]
    /\ running' = Some(j)
    /\ reply' = NoReply
    /\ UNCHANGED <<analysis_results, local_vars, attempts, sleeps, rate_failures,
                   last_failure, responded, datetime_now, GROQ_API_KEY,
                   latest_submit, call_task_output, call_returned>>

----------------------------------------------------------------------------
(* run_analysis: api.py:174-313 *)

\* ErrorText without the type's name
ErrorTextMessageOnly(e) == e.msg

\* api.py:312  f"{type(e).__name__}: {str(e)}"
ErrorText(e) == e.type \o K_colon_sp \o e.msg

\* Processing that leaves the status as it was
ProcessingSkipped(record) == record

\* api.py:180
Processing(record) == [record EXCEPT !.status = "processing"]

\* a variant that writes the failure into every record
FailEveryJob(j, e) ==
    /\ analysis_results' =
           [k \in DOMAIN analysis_results |->
               [analysis_results[k] EXCEPT !.status = "failed",
                                           !.error = Some(ErrorText(e)),
                                           !.completed_at = Some(datetime_now)]]
    /\ datetime_now' = datetime_now + 1

\* api.py:306-313  the outer except: the job fails with the exception's type and text
Fail(j, e) ==
    /\ analysis_results' =
           [analysis_results EXCEPT ![j].status = "failed",
                                    ![j].error = Some(ErrorText(e)),
                                    ![j].completed_at = Some(datetime_now)]
    /\ datetime_now' = datetime_now + 1

\* a variant that leaves completed_at alone
CompleteUnstamped(j, results) ==
    /\ analysis_results' =
           [analysis_results EXCEPT ![j].status = "completed",
                                    ![j].result = Some(results)]
    /\ datetime_now' = datetime_now + 1

\* api.py:299-302
Complete(j, results) ==
    /\ analysis_results' =
           [analysis_results EXCEPT ![j].status = "completed",
                                    ![j].result = Some(results),
                                    ![j].completed_at = Some(datetime_now)]
    /\ datetime_now' = datetime_now + 1

\* run_analysis returns: its local variables are gone
Return(j) ==
    /\ pc' = [pc EXCEPT ![j] = "done"]
    /\ attempt' = [attempt EXCEPT ![j] = 0]
    /\ crew_result' = [crew_result EXCEPT ![j] = None]
    /\ running' = None

\* api.py:178-189  the background task starts: processing, first iteration of the loop
Begin(j) ==
    /\ running = None
    /\ pc[j] = "scheduled"
    /\ analysis_results' = [analysis_results EXCEPT ![j] = Processing(@)]
    /\ crew_result' = [crew_result EXCEPT ![j] = None]
    /\ attempt' = [attempt EXCEPT ![j] = 0]
    /\ attempts' = [attempts EXCEPT ![j] = @ + 1]
    /\ pc' = [pc EXCEPT ![j] = "acquire"]
    /\ running' = Some(j)
    /\ reply' = NoReply
    /\ UNCHANGED <<limiter_vars, task_index, outputs, raised, sleep_left, acquires,
                   called, sleeps, rate_failures, last_failure, responded,
                   datetime_now, GROQ_API_KEY,
                   latest_submit, call_task_output, call_returned>>

\* api.py:198, crew.py:23-47, crew.py:134-155  build the crew and start its kickoff
Kickoff(j) ==
    /\ running = Some(j)
    /\ pc[j] = "crew"
    /\ IF GROQ_API_KEY = ""
       THEN /\ raised' = [raised EXCEPT ![j] = MissingKey]
            /\ pc' = [pc EXCEPT ![j] = "except"]
       ELSE /\ pc' = [pc EXCEPT ![j] = "tasks"]
            /\ UNCHANGED raised
    /\ task_index' = [task_index EXCEPT ![j] = 0]
    /\ outputs' = [outputs EXCEPT ![j] = <<>>]
    /\ reply' = NoReply
    /\ UNCHANGED <<analysis_results, limiter_vars, attempt, crew_result, sleep_left,
                   history_vars, datetime_now, GROQ_API_KEY,
                   latest_submit, call_task_output, call_returned, running>>

\* a variant whose crew puts the newest task output first
TaskCallPrepending(j) ==
    /\ running = Some(j)
    /\ pc[j] = "tasks"
    /\ task_index[j] < Len(ordered_tasks)
    /\ called' = [called EXCEPT ![j] = TRUE]
    /\ time_since_last' = Min(DELAY_BETWEEN_TASKS, time_since_last + CallTime)
    /\ sleep_left' = SleepLeftAfter(CallTime)
    /\ \/ /\ \E r \in NextOutputs(outputs[j]) :
                outputs' = [outputs EXCEPT ![j] = <<r>> \o @]
          /\ task_index' = [task_index EXCEPT ![j] = @ + 1]
          /\ UNCHANGED <<raised, pc>>
       \/ /\ \E e \in CallErrors : raised' = [raised EXCEPT ![j] = e]
          /\ outputs' = [outputs EXCEPT ![j] = <<>>]
          /\ task_index' = [task_index EXCEPT ![j] = 0]
          /\ pc' = [pc EXCEPT ![j] = "except"]
    /\ reply' = NoReply
    /\ UNCHANGED <<analysis_results, request_lock, attempt, crew_result, acquires,
                   attempts, sleeps, rate_failures, last_failure, responded,
                   datetime_now, GROQ_API_KEY,
                   latest_submit, call_task_output, call_returned, running>>

\* crew.py:138-152  the next task of ordered_tasks calls the external advisor, which
\* takes CallTime and returns a task output or raises; what the kickoff had
\* collected is lost when it raises
TaskCall(j) ==
    /\ running = Some(j)
    /\ pc[j] = "tasks"
    /\ task_index[j] < Len(ordered_tasks)
    /\ called' = [called EXCEPT ![j] = TRUE]
    /\ time_since_last' = Min(DELAY_BETWEEN_TASKS, time_since_last + CallTime)
    /\ sleep_left' = SleepLeftAfter(CallTime)
    /\ \/ /\ \E r \in NextOutputs(outputs[j]) :
                outputs' = [outputs EXCEPT ![j] = Append(@, r)]
          /\ task_index' = [task_index EXCEPT ![j] = @ + 1]
          /\ UNCHANGED <<raised, pc>>
       \/ /\ \E e \in CallErrors : raised' = [raised EXCEPT ![j] = e]
          /\ outputs' = [outputs EXCEPT ![j] = <<>>]
          /\ task_index' = [task_index EXCEPT ![j] = 0]
          /\ pc' = [pc EXCEPT ![j] = "except"]
    /\ reply' = NoReply
    /\ UNCHANGED <<analysis_results, request_lock, attempt, crew_result, acquires,
                   attempts, sleeps, rate_failures, last_failure, responded,
                   datetime_now, GROQ_API_KEY,
                   latest_submit, call_task_output, call_returned, running>>

\* api.py:198-200  kickoff returns after the last task: crew_result is set, break
KickoffReturn(j) ==
    /\ running = Some(j)
    /\ pc[j] = "tasks"
    /\ task_index[j] = Len(ordered_tasks)
    /\ \E n \in ReturnedCounts :
          crew_result' = [crew_result EXCEPT ![j] =
                             Some([tasks_output |-> SubSeq(outputs[j], 1, n)])]
    /\ outputs' = [outputs EXCEPT ![j] = <<>>]
    /\ task_index' = [task_index EXCEPT ![j] = 0]
    /\ responded' = [responded EXCEPT ![j] = TRUE]
    /\ pc' = [pc EXCEPT ![j] = "after_loop"]
    /\ reply' = NoReply
    /\ UNCHANGED <<analysis_results, limiter_vars, attempt, raised, sleep_left,
                   acquires, called, attempts, sleeps, rate_failures, last_failure,
                   datetime_now, GROQ_API_KEY,
                   latest_submit, call_task_output, call_returned, running>>

\* api.py:202-232  the except clause of the retry loop
Except(j) ==
    LET e == raised[j]
        kind == FailureKinds[e]
        handling == Handling(kind, attempt[j])
    IN
    /\ running = Some(j)
    /\ pc[j] = "except"
    /\ raised' = [raised EXCEPT ![j] = NoExc]
    /\ last_failure' = [last_failure EXCEPT ![j] = kind]
    /\ rate_failures' = [rate_failures EXCEPT ![j] =
                            IF kind = "rate_limit" THEN @ + 1 ELSE @]
    /\ reply' = NoReply
    /\ CASE handling = "retry" ->    \* api.py:217-221  sleep, then continue
                 /\ sleep_left' = [sleep_left EXCEPT ![j] = BackoffDelays[e, attempt[j]]]
                 /\ sleeps' = [sleeps EXCEPT ![j] = @ + 1]
                 /\ pc' = [pc EXCEPT ![j] = "backoff"]
                 /\ running' = None
                 /\ UNCHANGED <<analysis_results, datetime_now, attempt, crew_result>>
         [] handling = "exhausted" ->    \* api.py:223  raise Exception("Rate limit exceeded ...")
                 /\ Fail(j, RetriesExhausted)
                 /\ Return(j)
                 /\ UNCHANGED <<sleep_left, sleeps>>
         [] handling = "break" ->    \* api.py:229
                 /\ pc' = [pc EXCEPT ![j] = "after_loop"]
                 /\ UNCHANGED <<analysis_results, datetime_now, attempt, crew_result,
                                sleep_left, sleeps, running>>
         [] OTHER ->    \* api.py:232  raise
                 /\ Fail(j, e)
                 /\ Return(j)
                 /\ UNCHANGED <<sleep_left, sleeps>>
    /\ UNCHANGED <<limiter_vars, task_index, outputs, acquires, called, attempts,
                   responded, GROQ_API_KEY,
                   latest_submit, call_task_output, call_returned>>

\* a variant that retries without passing the rate limiter again
BackoffWakeSkippingAcquire(j) ==
    /\ running = None
    /\ pc[j] = "backoff"
    /\ sleep_left[j] = 0
    /\ attempt' = [attempt EXCEPT ![j] = @ + 1]
    /\ attempts' = [attempts EXCEPT ![j] = @ + 1]
    /\ pc' = [pc EXCEPT ![j] = "crew"]
    /\ running' = Some(j)
    /\ reply' = NoReply
    /\ UNCHANGED <<analysis_results, limiter_vars, task_index, outputs, crew_result,
                   raised, sleep_left, acquires, called, sleeps, rate_failures,
                   last_failure, responded, datetime_now, GROQ_API_KEY,
                   latest_submit, call_task_output, call_returned>>

\* api.py:220-221, 188-189  the backoff sleep ends: continue with the next iteration
BackoffWake(j) ==
    /\ running = None
    /\ pc[j] = "backoff"
    /\ sleep_left[j] = 0
    /\ attempt' = [attempt EXCEPT ![j] = @ + 1]
    /\ attempts' = [attempts EXCEPT ![j] = @ + 1]
    /\ pc' = [pc EXCEPT ![j] = "acquire"]
    /\ running' = Some(j)
    /\ reply' = NoReply
    /\ UNCHANGED <<analysis_results, limiter_vars, task_index, outputs, crew_result,
                   raised, sleep_left, acquires, called, sleeps, rate_failures,
                   last_failure, responded, datetime_now, GROQ_API_KEY,
                   latest_submit, call_task_output, call_returned>>

\* api.py:234-313  after the loop: no result, or extraction and the final record
AfterLoop(j) ==
    /\ running = Some(j)
    /\ pc[j] = "after_loop"
    /\ IF crew_result[j] = None
       THEN Fail(j, NoResult)
       ELSE IF AnalysisResultsValid(ExtractAll(crew_result[j][1].tasks_output))
       THEN Complete(j, AnalysisResults(ExtractAll(crew_result[j][1].tasks_output)))
       ELSE Fail(j, ResultsInvalid)
    /\ Return(j)
    /\ reply' = NoReply
    /\ UNCHANGED <<limiter_vars, task_index, outputs, raised, sleep_left, history_vars,
                   GROQ_API_KEY,
                   latest_submit, call_task_output, call_returned>>

----------------------------------------------------------------------------
(* The passing of time while the event loop is idle *)

Ready(j) ==
    \/ pc[j] = "scheduled"
    \/ pc[j] = "lock_wait" /\ request_lock = None
    \/ Sleeping(j) /\ sleep_left[j] = 0

\* the time until the first sleeper is due
NextWake ==
    CHOOSE t \in {sleep_left[j] : j \in {k \in Jobs : Sleeping(k)}} :
        \A k \in Jobs : Sleeping(k) => t <= sleep_left[k]

\* no task is ready to run: time passes until the first sleeper is due
Advance ==
    /\ running = None
    /\ \A j \in Jobs : ~Ready(j)
    /\ \E j \in Jobs : Sleeping(j)
    /\ time_since_last' = Min(DELAY_BETWEEN_TASKS, time_since_last + NextWake)
    /\ sleep_left' = SleepLeftAfter(NextWake)
    /\ reply' = NoReply
    /\ latest_submit' = None
    /\ UNCHANGED <<analysis_results, request_lock, attempt, task_index, outputs,
                   crew_result, raised, history_vars, datetime_now, GROQ_API_KEY,
                   call_task_output, call_returned, running, pc>>

\* no task is left to run: a long time passes before the next request
Idle ==
    /\ running = None
    /\ \A j \in Jobs : pc[j] \in {"none", "done"}
    /\ time_since_last < DELAY_BETWEEN_TASKS
    /\ time_since_last' = DELAY_BETWEEN_TASKS
    /\ reply' = NoReply
    /\ latest_submit' = None
    /\ UNCHANGED <<analysis_results, request_lock, local_vars, history_vars,
                   datetime_now, GROQ_API_KEY, call_task_output, call_returned, running, pc>>

Next ==
    \/ \E j \in Jobs : analyze(j)
    \/ \E id \in Jobs \cup {UnknownId} : get_results(id)
    \/ \E j \in Jobs : Begin(j)
    \/ \E j \in Jobs : LockWait(j)
    \/ \E j \in Jobs : LockEnter(j)
    \/ \E j \in Jobs : Stamp(j)
    \/ \E j \in Jobs : Kickoff(j)
    \/ \E j \in Jobs : TaskCall(j)
    \/ \E j \in Jobs : KickoffReturn(j)
    \/ \E j \in Jobs : Except(j)
    \/ \E j \in Jobs : BackoffWake(j)
    \/ \E j \in Jobs : AfterLoop(j)
    \/ Advance
    \/ Idle

Spec == Init /\ [][Next]_vars


\* The event loop runs every task that is ready, every external call returns or
\* raises, and time passes while the loop is idle; the clients are free to send
\* requests or not.
FairSpec ==
    /\ Spec
    /\ \A j \in Jobs :
           WF_vars(\/ Begin(j)
                   \/ LockWait(j)
                   \/ LockEnter(j)
                   \/ Stamp(j)
                   \/ Kickoff(j)
                   \/ TaskCall(j)
                   \/ KickoffReturn(j)
                   \/ Except(j)
                   \/ BackoffWake(j)
                   \/ AfterLoop(j))
    /\ WF_vars(Advance)
----------------------------------------------------------------------------
(* One call of safe_extract_suggestions, on every task output of a bounded set *)

MaxLines == 4

\* line i of a raw text: a bulleted line of 21 characters after its marker, a
\* numbered line of exactly 20, a bulleted line of 5, or a line without marker
LineText(kind, i) ==
    CASE kind = "long" -> <<"-", " ">> \o [k \in 1 .. 21 |-> LowerCase[i]]
      [] kind = "exact" -> <<DigitChar(i), ".", " ">> \o [k \in 1 .. 20 |-> LowerCase[i]]
      [] kind = "short" -> <<Bullet, " ">> \o [k \in 1 .. 5 |-> LowerCase[i]]
      [] OTHER -> [k \in 1 .. 25 |-> LowerCase[i]]

\* '\n'.join(lines)
RECURSIVE JoinLines(_)
JoinLines(lines) ==
    IF lines = <<>> THEN <<>>
    ELSE IF Len(lines) = 1 THEN lines[1]
    ELSE lines[1] \o <<"\n">> \o JoinLines(Tail(lines))

\* raw texts without JSON: every mix of up to MaxLines lines, and longer lists
ListTexts ==
    { JoinLines([i \in 1 .. Len(kinds) |-> LineText(kinds[i], i)]) :
        kinds \in UNION { [1 .. n -> {"long", "exact", "short", "plain"}] : n \in 0 .. MaxLines }
                  \cup { [i \in 1 .. n |-> "long"] : n \in MaxLines + 1 .. MaxLines + 3 }
                  \cup { [i \in 1 .. n |-> IF i = 2 THEN "exact" ELSE "long"] :
                             n \in MaxLines + 1 .. MaxLines + 3 } }

\* api.py:76  the task outputs of the calls: every combination of a pydantic
\* attribute, a raw attribute and an output attribute, and the texts of lists
Inputs ==
    LET pydantics == { None, Some(PyNone), Some(PyObject), Some(PyModel(<<>>)),
                       Some(PyModel(<<PyStr(<<"a">>), PyStr(<<"b">>), PyStr(<<"c">>)>>)) }
        raws == { None, Some(PyNone) } \cup
                { Some(PyStr(text)) :
                    text \in { <<>>, T_empty_object, T_embedded_json, T_numbers, T_bullets_4,
                               T_bullets_2, T_no_json, T_truncated, T_extra_brace,
                               T_two_items, T_embedded_json \o <<"\n">> \o T_bullets_4 } }
        outputs_ == { None, Some(PyNum(<<"1">>)), Some(PyStr(T_output_str)),
                      Some(PyStr(T_two_items)), Some(PyStr(T_numbers)),
                      Some(PyStr(T_no_json)) }
    IN  { TaskOutput(p, r, o) : p \in pydantics, r \in raws, o \in outputs_ }
        \cup { RawOnly(text) : text \in ListTexts }

ExtractInit ==
    /\ ServerInit
    /\ call_task_output \in Inputs
    /\ call_returned = None

\* api.py:76-171  the call returns
Extract ==
    /\ call_returned = None
    /\ call_returned' = Some(safe_extract_suggestions(call_task_output, 5))
    /\ UNCHANGED <<analysis_results, limiter_vars, local_vars, history_vars, datetime_now,
                   GROQ_API_KEY, running, pc, reply, latest_submit, call_task_output>>

ExtractSpec == ExtractInit /\ [][Extract]_vars

----------------------------------------------------------------------------
(* The properties of the specification *)

\* the status of job j, "none" before its submission
Status(j) == IF j \in Submitted THEN analysis_results[j].status ELSE "none"

Terminal == {"completed", "failed"}

\* job j issues an external call in this step
CallIssued(j) ==
    /\ pc[j] = "tasks"
    /\ pc'[j] \in {"tasks", "except"}
    /\ <<pc[j], task_index[j]>> # <<pc'[j], task_index'[j]>>

\* 'Rate limit exceeded after 5 retries'
X_exhaustion ==
    <<"R", "a", "t", "e", " ", "l", "i", "m", "i", "t", " ", "e", "x", "c",
    "e", "e", "d", "e", "d", " ", "a", "f", "t", "e", "r", " ", "5", " ",
    "r", "e", "t", "r", "i", "e", "s">>

\* C1: the status of every job only moves from none to queued, from queued to
\* processing and from processing to completed or failed, whatever the other
\* jobs and the status queries do.
C1_StatusPath ==
    [][\A j \in Jobs :
          \/ Status(j)' = Status(j)
          \/ <<Status(j), Status(j)'>> \in
                 { <<"none", "queued">>, <<"queued", "processing">>,
                   <<"processing", "completed">>, <<"processing", "failed">> }]_vars

\* C1: one job has completed and another has failed
C1_Witness ==
    \E j, k \in Jobs : Status(j) = "completed" /\ Status(k) = "failed"

\* C2: once a job's record is completed or failed, no step of any operation
\* changes any of its fields.
C2_TerminalFrozen ==
    [][\A j \in Jobs :
          Status(j) \in Terminal => analysis_results'[j] = analysis_results[j]]_vars

\* C2: a job was submitted after another had ended, and it has ended too
C2_Witness ==
    \E j, k \in Jobs :
        /\ Status(j) \in Terminal
        /\ Status(k) \in Terminal
        /\ analysis_results[j].completed_at[1] < analysis_results[k].submitted_at

\* C3: every external call of a job is preceded by a rate_limit_tokens() of its
\* own: no call is issued when the job has issued one since its latest
\* completed rate_limit_tokens().
C3_AcquirePerCall ==
    [][\A j \in Jobs : CallIssued(j) => ~called[j]]_vars

\* C4: last_request_time is written only by the holder of the lock, after its
\* wait has finished and at least DELAY_BETWEEN_TASKS after the write before.
C4_StampGap ==
    [][\A j \in Jobs :
          acquires'[j] # acquires[j] =>
              /\ request_lock = Some(j)
              /\ sleep_left[j] = 0
              /\ time_since_last >= DELAY_BETWEEN_TASKS
              /\ time_since_last' = 0]_vars

\* C4: a job has completed its second rate_limit_tokens() while the other
\* job waits for the lock
C4_Witness ==
    \E j, k \in Jobs :
        /\ pc[j] = "crew"
        /\ acquires[j] = 2
        /\ time_since_last = 0
        /\ pc[k] = "lock_wait"

\* C5: a job whose attempt failed with a validation error is not moved to
\* failed: it goes on to the extraction.
C5_ValidationThenExtraction ==
    \A j \in Jobs : last_failure[j] = "validation" => Status(j) # "failed"

\* C6: after an attempt has failed with a validation error the job completes no
\* further rate_limit_tokens(), starts no backoff sleep and no attempt and
\* issues no external call.
C6_NoAttemptAfterValidation ==
    [][\A j \in Jobs :
          last_failure[j] = "validation" =>
              /\ acquires'[j] = acquires[j]
              /\ sleeps'[j] = sleeps[j]
              /\ attempts'[j] = attempts[j]
              /\ ~CallIssued(j)
              /\ pc'[j] \in {"after_loop", "done"}]_vars

\* C6: the second attempt of a job failed with a validation error and the job ended
C6_Witness ==
    \E j \in Jobs :
        last_failure[j] = "validation" /\ attempts[j] = 2 /\ pc[j] = "done"

\* C7: a rate-limit failure of an attempt that is not the last starts exactly one
\* backoff sleep, from which the job goes to exactly one further attempt; the
\* job stays processing.
C7_RateLimitRetry ==
    [][\A j \in Jobs :
          /\ ( /\ pc[j] = "except"
               /\ pc'[j] # "except"
               /\ IsRateLimit(Lower(raised[j].msg))
               /\ attempts[j] < max_retries )
             => /\ pc'[j] = "backoff"
                /\ sleeps'[j] = sleeps[j] + 1
                /\ attempts'[j] = attempts[j]
                /\ Status(j)' = "processing"
          /\ (pc[j] = "backoff" /\ pc'[j] # "backoff")
             => /\ pc'[j] = "acquire"
                /\ sleeps'[j] = sleeps[j]
                /\ attempts'[j] = attempts[j] + 1
                /\ Status(j)' = "processing"]_vars

\* C7: a job has completed after one rate-limit failure, one sleep and a second attempt
C7_Witness ==
    \E j \in Jobs :
        /\ rate_failures[j] = 1
        /\ sleeps[j] = 1
        /\ attempts[j] = 2
        /\ Status(j) = "completed"

\* C8: a job never makes more than max_retries attempts; when max_retries attempts
\* have failed with a rate-limit error the job has slept max_retries - 1 times
\* and is failed with the message of the exhausted retries.
C8_RetryExhaustion ==
    \A j \in Jobs :
        /\ attempts[j] <= max_retries
        /\ sleeps[j] <= max_retries - 1
        /\ rate_failures[j] = max_retries =>
               /\ attempts[j] = max_retries
               /\ sleeps[j] = max_retries - 1
               /\ pc[j] = "done"
               /\ Status(j) = "failed"
               /\ Contains(analysis_results[j].error[1], X_exhaustion)

\* C8: every attempt of a job has failed with a rate-limit error
C8_Witness ==
    \E j \in Jobs : rate_failures[j] = max_retries

\* C9: a failure that is neither a rate-limit nor a validation error ends the job
\* as failed in the same step, without sleep or further attempt, and the
\* error of the record is the type of the exception, ": " and its message.
C9_OtherErrorFails ==
    [][\A j \in Jobs :
          ( /\ pc[j] = "except"
            /\ pc'[j] # "except"
            /\ ~IsRateLimit(Lower(raised[j].msg))
            /\ ~IsValidation(Lower(raised[j].msg)) )
          => /\ pc'[j] = "done"
             /\ Status(j)' = "failed"
             /\ analysis_results'[j].error =
                    Some(raised[j].type \o <<":", " ">> \o raised[j].msg)
             /\ sleeps'[j] = sleeps[j]
             /\ attempts'[j] = attempts[j]]_vars

\* C9: the first attempt of a job raised such an error from an external call
C9_Witness ==
    \E j \in Jobs :
        /\ last_failure[j] = "other"
        /\ Status(j) = "failed"
        /\ attempts[j] = 1
        /\ sleeps[j] = 0
        /\ called[j]

\* C10: a job for which the kickoff returned a result ends completed, whatever
\* the extraction gives; a failed job got no result.
C10_ResponseCompletes ==
    \A j \in Jobs :
        /\ (responded[j] /\ pc[j] = "done") => Status(j) = "completed"
        /\ Status(j) = "failed" => ~responded[j]


\* the five lists of a result, in the order of the categories
Categories(result) ==
    <<result.marketing_suggestions, result.tech_suggestions, result.org_hr_suggestions,
      result.competitive_suggestions, result.finance_suggestions>>

\* C11: when a job is completed with a crew result of n task outputs (0 to 5), the
\* list of the category at position i of its result is the extraction of
\* output i for i < n and the empty list otherwise.
C11_ResultByPosition ==
    [][\A j \in Jobs :
          (Status(j) = "processing" /\ Status(j)' = "completed") =>
              /\ crew_result[j] # None
              /\ Len(crew_result[j][1].tasks_output) \in 0 .. TASKS_PER_ANALYSIS
              /\ \A i \in 0 .. TASKS_PER_ANALYSIS - 1 :
                     Categories(analysis_results'[j].result[1])[i + 1] =
                         IF i < Len(crew_result[j][1].tasks_output)
                         THEN Strings(Extracted[crew_result[j][1].tasks_output[i + 1]])
                         ELSE <<>>]_vars

\* C11: a job has completed from five structured outputs of five items: 25
\* suggestions, five in each category, those of the category's own output; another
\* has completed from three outputs, with its last two categories empty
C11_Witness ==
    \E j, k \in Jobs :
        /\ Status(j) = "completed"
        /\ \A i \in 1 .. TASKS_PER_ANALYSIS :
               /\ Len(Categories(analysis_results[j].result[1])[i]) = 5
               /\ Categories(analysis_results[j].result[1])[i] =
                      Strings(TaskOutputs[i].pydantic[1])
        /\ Status(k) = "completed"
        /\ Len(Categories(analysis_results[k].result[1])[3]) > 0
        /\ Categories(analysis_results[k].result[1])[4] = <<>>
        /\ Categories(analysis_results[k].result[1])[5] = <<>>

\* C12: a record carries a result only if its status is completed and an error
\* only if its status is failed, in the store and in every body returned by a
\* status query.
C12_ResultErrorByStatus ==
    /\ \A j \in Submitted :
           /\ analysis_results[j].result # None => analysis_results[j].status = "completed"
           /\ analysis_results[j].error # None => analysis_results[j].status = "failed"
    /\ reply.body # None =>
           /\ reply.body[1].result # None => reply.body[1].status = "completed"
           /\ reply.body[1].error # None => reply.body[1].status = "failed"

\* C12: a completed job holds a result, a failed one an error, and a status query
\* has just returned the failed one
C12_Witness ==
    \E j, k \in Jobs :
        /\ Status(j) = "completed" /\ analysis_results[j].result # None
        /\ Status(k) = "failed" /\ analysis_results[k].error # None
        /\ reply.body = Some(analysis_results[k])

\* the completion timestamp of job j, None before its submission
CompletedAt(j) == IF j \in Submitted THEN analysis_results[j].completed_at ELSE None

\* C13: completed_at is unset while the job is queued or processing, it is set
\* once the job is completed or failed, and it is written only by the step that
\* moves the job to completed or failed.
C13_CompletedAtOnce ==
    [][\A j \in Jobs :
          /\ Status(j)' \in {"queued", "processing"} => CompletedAt(j)' = None
          /\ Status(j)' \in Terminal => CompletedAt(j)' # None
          /\ CompletedAt(j)' # CompletedAt(j) =>
                 /\ Status(j) = "processing"
                 /\ Status(j)' \in Terminal
                 /\ CompletedAt(j) = None]_vars

\* C13: a job is processing with no completion timestamp while another has
\* completed with a timestamp later than its submission
C13_Witness ==
    \E j, k \in Jobs :
        /\ Status(j) = "processing" /\ CompletedAt(j) = None
        /\ Status(k) = "completed"
        /\ CompletedAt(k) # None
        /\ CompletedAt(k)[1] > analysis_results[k].submitted_at

\* C14: analyze never returns an id that an earlier request was given; when it
\* returns, the record of the id is in the store as queued and run_analysis has
\* not started; and the status query that follows the submission of a job at
\* once, before any other request and before time passes on the idle server,
\* returns the record as queued or processing.
C14_SubmitThenStatus ==
    [][\A j \in Jobs :
          /\ (reply'.code = 200 /\ reply'.body = None /\ reply'.analysis_id = j) =>
                 /\ j \notin Submitted
                 /\ Status(j)' = "queued"
                 /\ pc'[j] = "scheduled"
          /\ (latest_submit = Some(j) /\ reply'.code # 0 /\ reply'.body # None
                /\ reply'.analysis_id = j) =>
                 reply'.status \in {"queued", "processing"}
          /\ (latest_submit = Some(j) /\ reply'.analysis_id = j) => reply'.code # 404]_vars

\* the step is a status query for id, answered by reply'
Queried(id) ==
    /\ reply'.analysis_id = id
    /\ \/ reply'.code = 404
       \/ reply'.code = 200 /\ reply'.body # None

\* C15: a status query returns 404 exactly when analyze has returned the id to
\* no request, and the current record of the id otherwise; in both cases the
\* store, the lock and the time since the latest stamp are unchanged.
C15_StatusQuery ==
    [][\A id \in Jobs \cup {UnknownId} :
          Queried(id) =>
              /\ reply'.code = 404 <=> id \notin Submitted
              /\ id \in Submitted => reply'.body = Some(analysis_results[id])
              /\ UNCHANGED <<analysis_results, request_lock, time_since_last>>]_vars

\* C15: a status query has returned the record of a job that another task holds
\* waiting for the lock
C15_Witness ==
    \E j \in Submitted, k \in Jobs :
        /\ reply.code = 200
        /\ reply.body = Some(analysis_results[j])
        /\ reply.status = "processing"
        /\ pc[j] = "lock_wait"
        /\ request_lock = Some(k)

\* C16: under FairSpec every submitted job is eventually completed or failed,
\* whatever the other job, the status queries and the failures of the external
\* calls do.
C16_Termination ==
    \A j \in Jobs : (Status(j) \in {"queued", "processing"}) ~> (Status(j) \in Terminal)

\* C16: a job has ended after a backoff sleep and a wait for the lock that the
\* other job held
C16_Witness ==
    \E j \in Jobs :
        /\ Status(j) \in Terminal
        /\ sleeps[j] > 0
        /\ acquires[j] > 1
        /\ \E k \in Jobs \ {j} : acquires[k] > 0

\* C17: for every task output (None, a pydantic model, a raw text with well-formed,
\* malformed or truncated JSON or none, an output attribute, attributes of other
\* types, in every combination) the call returns a value, never an exception,
\* and the value is the empty list when no path has found suggestions.
C17_ExtractTotal ==
    call_returned # None =>
        /\ call_returned[1].t \in {"list", "str", "dict"}
        /\ ( /\ ~FromPydantic(call_task_output).found
             /\ ~FromRaw(call_task_output, 5).found
             /\ ~FromOutput(call_task_output).found )
           => call_returned[1] = PyList(<<>>)

\* C17: the call has returned the empty list for a task output whose raw attribute
\* is None, on which len(raw_text) raises, and whose output attribute holds a list
C17_Witness ==
    /\ call_returned = Some(PyList(<<>>))
    /\ call_task_output.raw = Some(PyNone)
    /\ FromOutput(call_task_output).found

\* the raw attribute of the task output is a string
RawIsStr(task_output) == task_output.raw # None /\ task_output.raw[1].t = "str"

RECURSIVE ListedLines(_, _)
ListedLines(lines, min) ==
    IF lines = <<>> THEN <<>>
    ELSE ( IF /\ Strip(Head(lines)) # <<>>
              /\ Strip(Head(lines))[1] \in Digits \cup {"-", Bullet}
              /\ Len(Strip(LStripChars(Strip(Head(lines)), ListMarkers))) >= min
           THEN <<PyStr(Strip(LStripChars(Strip(Head(lines)), ListMarkers)))>>
           ELSE <<>> )
         \o ListedLines(Tail(lines), min)

\* the empty list for fewer than 3 lines, the first min(n, 5) of n >= 3 lines
FirstFive(lines) ==
    IF Len(lines) < 3 THEN PyList(<<>>) ELSE PyList(SubSeq(lines, 1, Min(Len(lines), 5)))

\* the task output has a raw text only, and the text holds no JSON with suggestions
RawTextOnly(task_output) ==
    /\ task_output.pydantic \in {None, Some(PyNone)}
    /\ task_output.output = None
    /\ RawIsStr(task_output)
    /\ ~FromRawJson(task_output.raw[1].chars).found

\* C19, as amended: for a task output with a raw text only and no JSON in it, the
\* call returns the empty list when fewer than 3 bulleted or numbered lines have
\* more than 20 characters after their marker, and the first min(n, 5) of the n
\* such lines, in their order, when n >= 3.
C19_LineHeuristic ==
    (call_returned # None /\ RawTextOnly(call_task_output)) =>
        call_returned[1] =
            FirstFive(ListedLines(SplitLines(call_task_output.raw[1].chars), 21))

\* C19, as stated: the same with the lines of at least 20 characters.
C19_LineHeuristicAtLeast20 ==
    (call_returned # None /\ RawTextOnly(call_task_output)) =>
        call_returned[1] =
            FirstFive(ListedLines(SplitLines(call_task_output.raw[1].chars), 20))

\* C19: of seven listed lines, one of them of exactly 20 characters, the call has
\* returned the first five of the six longer ones
C19_Witness ==
    /\ call_returned # None
    /\ RawTextOnly(call_task_output)
    /\ Len(SplitLines(call_task_output.raw[1].chars)) = 7
    /\ Len(ListedLines(SplitLines(call_task_output.raw[1].chars), 20)) = 7
    /\ Len(ListedLines(SplitLines(call_task_output.raw[1].chars), 21)) = 6
    /\ Len(call_returned[1].items) = 5
    /\ call_returned[1].items =
           SubSeq(ListedLines(SplitLines(call_task_output.raw[1].chars), 21), 1, 5)

\* C20: every list in the result of a completed job has no element or between 3
\* and 7 elements.
C20_SuggestionSetLength ==
    \A j \in Submitted :
        analysis_results[j].status = "completed" =>
            \A i \in 1 .. TASKS_PER_ANALYSIS :
                Len(Categories(analysis_results[j].result[1])[i]) \in {0} \cup 3 .. 7

\* C21: no task sleeps in the rate-limit wait of rate_limit_tokens while it holds
\* request_lock, so that no other task waits for the lock during that sleep.
C21_WaitOutsideLock ==
    \A j \in Jobs :
        (pc[j] = "rate_sleep" /\ sleep_left[j] > 0) =>
            /\ request_lock # Some(j)
            /\ \A k \in Jobs \ {j} : pc[k] # "lock_wait"

\* C22: at most one task at a time is between the read of last_request_time and
\* the write of it in rate_limit_tokens, and that task holds request_lock; so no
\* two callers compute their wait from the same value of last_request_time.
C22_OneReaderAtATime ==
    \A j \in Jobs :
        pc[j] \in {"rate_sleep", "stamp"} =>
            /\ request_lock = Some(j)
            /\ \A k \in Jobs \ {j} : pc[k] \notin {"rate_sleep", "stamp"}

\* C22: one caller has read last_request_time and sleeps before it writes it,
\* while a second caller has reached the lock and waits for it
C22_Witness ==
    \E j \in Jobs, k \in Jobs :
        /\ j # k
        /\ pc[j] = "rate_sleep"
        /\ sleep_left[j] > 0
        /\ pc[k] = "lock_wait"

\* C23: a job whose crew is calling the external advisors, or that sleeps in a
\* retry backoff, does not hold request_lock, and while the calls of a job are
\* under way another job that waits at the free lock can take it and go on with
\* its rate_limit_tokens.
C23_OthersAcquireDuringCall ==
    \A j \in Jobs :
        pc[j] \in {"crew", "tasks", "except", "backoff"} =>
            /\ request_lock # Some(j)
            /\ \A k \in Jobs \ {j} :
                  (pc[j] = "tasks" /\ pc[k] = "lock_wait" /\ request_lock = None) =>
                      ENABLED LockEnter(k)

\* C24: within one attempt the calls are issued one at a time in the order of
\* ordered_tasks (marketing, tech, org_hr, competitive, finance): the call of the
\* task at position i + 1 is issued when exactly i outputs are collected, its
\* output is appended behind them, the kickoff returns only after the fifth, and
\* the outputs its result carries stand where they were collected.
C24_SequentialInOrder ==
    [][\A j \in Jobs :
          /\ ordered_tasks =
                 <<"marketing_analysis_task", "tech_analysis_task",
                   "org_hr_analysis_task", "competitive_analysis_task",
                   "finance_analysis_task">>
          /\ CallIssued(j) =>
                 /\ running = Some(j)
                 /\ Len(outputs[j]) = task_index[j]
                 /\ task_index[j] < Len(ordered_tasks)
                 /\ pc'[j] = "tasks" =>
                        /\ task_index'[j] = task_index[j] + 1
                        /\ Len(outputs'[j]) = task_index'[j]
                        /\ SubSeq(outputs'[j], 1, task_index[j]) = outputs[j]
          /\ (crew_result[j] = None /\ crew_result'[j] # None) =>
                 /\ task_index[j] = Len(ordered_tasks)
                 /\ Len(outputs[j]) = Len(ordered_tasks)
                 /\ \A i \in 1 .. Len(crew_result'[j][1].tasks_output) :
                        crew_result'[j][1].tasks_output[i] = outputs[j][i]]_vars

\* C24: the five calls of one attempt have returned, each with the structured
\* output of its own category, collected in the order of the tasks
C24_Witness ==
    \E j \in Jobs :
        /\ pc[j] = "tasks"
        /\ task_index[j] = Len(ordered_tasks)
        /\ outputs[j] = <<1, 2, 3, 4, 5>>

\* C25: every step of the execution of a job leaves the record of every other
\* job as it was, and the program counter, the loop variables, the collected
\* outputs and the counters of every other job as well.
C25_JobsIndependent ==
    [][\A j \in Jobs :
          (pc[j] \notin {"none", "done"} /\
           <<pc[j], task_index[j]>> # <<pc'[j], task_index'[j]>>) =>
              \A k \in Jobs \ {j} :
                  /\ (k \in Submitted) = (k \in Submitted')
                  /\ k \in Submitted => analysis_results'[k] = analysis_results[k]
                  /\ <<pc[k], attempt[k], task_index[k], outputs[k], crew_result[k],
                       raised[k]>> =
                     <<pc'[k], attempt'[k], task_index'[k], outputs'[k],
                       crew_result'[k], raised'[k]>>
                  /\ <<acquires[k], called[k], attempts[k], sleeps[k],
                       rate_failures[k], last_failure[k], responded[k]>> =
                     <<acquires'[k], called'[k], attempts'[k], sleeps'[k],
                       rate_failures'[k], last_failure'[k], responded'[k]>>]_vars

\* C25: a job has failed after the other one was completed, and the record of
\* the completed one stands
C25_Witness ==
    \E j \in Submitted, k \in Submitted :
        /\ Status(j) = "failed"
        /\ Status(k) = "completed"
        /\ analysis_results[k].completed_at[1] < analysis_results[j].completed_at[1]
        /\ analysis_results[k].error = None

\* C26: the backoff sleep that follows the rate-limit failure of iteration k of
\* the retry loop (k = 0 for the first attempt) lasts max(p + 2, 10 * 2^k) seconds
\* when the message names a duration of p seconds after 'try again in', and
\* 10 * 2^k seconds when it names none or one that float() rejects; it is never
\* shorter than 10 * 2^k seconds.
C26_BackoffDuration ==
    [][\A j \in Jobs :
          (pc[j] = "except" /\ pc'[j] = "backoff") =>
              LET p == IF raised[j].msg = M_rate_30 THEN <<30 * TicksPerSecond>>
                       ELSE IF raised[j].msg = M_rate_7
                            THEN <<(15 * TicksPerSecond) \div 2>>
                       ELSE <<>>
                  floor == 10 * Pow(2, attempt[j]) * TicksPerSecond
              IN  /\ sleep_left'[j] =
                         IF p # <<>> THEN Max(p[1] + 2 * TicksPerSecond, floor)
                         ELSE floor
                  /\ sleep_left'[j] >= floor
                  /\ raised[j].msg \in {M_rate_plain, M_rate_30, M_rate_7, M_rate_odd,
                                        M_rate_and_validation}]_vars

\* C26: a job starts a sleep of 32 seconds after the rate-limit failure of its
\* second attempt, whose message named 30 seconds
C26_Witness ==
    \E j \in Jobs :
        /\ pc[j] = "backoff"
        /\ attempt[j] = 1
        /\ last_failure[j] = "rate_limit"
        /\ sleep_left[j] = 32 * TicksPerSecond

\* C27: every attempt of a job is preceded by exactly one completed
\* rate_limit_tokens(): an iteration of the retry loop begins only when every
\* earlier one has completed its rate_limit_tokens(), the kickoff of the n-th
\* iteration starts when exactly n are completed, and the step that ends a backoff
\* sleep leads to rate_limit_tokens(), never to a kickoff.
C27_AcquireBeforeAttempt ==
    [][\A j \in Jobs :
          /\ attempts'[j] # attempts[j] =>
                 /\ attempts'[j] = attempts[j] + 1
                 /\ acquires[j] = attempts[j]
                 /\ pc'[j] = "acquire"
          /\ acquires'[j] # acquires[j] =>
                 /\ acquires'[j] = acquires[j] + 1
                 /\ acquires'[j] = attempts[j]
                 /\ pc'[j] = "crew"
          /\ (pc[j] = "crew" /\ pc'[j] # "crew") =>
                 /\ pc'[j] \in {"tasks", "except"}
                 /\ acquires[j] = attempts[j]
          /\ (pc[j] = "backoff" /\ pc'[j] # "backoff") => pc'[j] = "acquire"
          /\ pc'[j] = "tasks" => pc[j] \in {"crew", "tasks"}]_vars

\* C27: the third attempt of a job is calling the advisors, after two backoff
\* sleeps and three completed rate_limit_tokens()
C27_Witness ==
    \E j \in Jobs :
        /\ pc[j] = "tasks"
        /\ sleeps[j] = 2
        /\ attempts[j] = 3
        /\ acquires[j] = 3

\* C28: a failure whose message matches the rate-limit signature, also one that
\* matches the validation signature as well, is handled as a rate-limit error:
\* backoff and retry while attempts remain, the error of the exhausted retries
\* in the last attempt; the loop is left by the validation branch only when
\* the validation signature matches and the rate-limit signature does not.
C28_RateLimitFirst ==
    [][\A j \in Jobs :
          (pc[j] = "except" /\ pc'[j] # "except") =>
              /\ IsRateLimit(Lower(raised[j].msg)) =>
                     IF attempt[j] < max_retries - 1
                     THEN /\ pc'[j] = "backoff"
                          /\ sleeps'[j] = sleeps[j] + 1
                          /\ Status(j)' = "processing"
                     ELSE /\ pc'[j] = "done"
                          /\ Status(j)' = "failed"
                          /\ Contains(analysis_results'[j].error[1], X_exhaustion)
              /\ pc'[j] = "after_loop" =>
                     /\ IsValidation(Lower(raised[j].msg))
                     /\ ~IsRateLimit(Lower(raised[j].msg))]_vars

\* C28: the last attempt of a job has failed with '429 validation error', which
\* matches both signatures, after four failures handled as rate-limit errors
C28_Witness ==
    \E j \in Jobs :
        /\ pc[j] = "except"
        /\ raised[j].msg = M_rate_and_validation
        /\ IsRateLimit(Lower(raised[j].msg))
        /\ IsValidation(Lower(raised[j].msg))
        /\ attempt[j] = max_retries - 1
        /\ rate_failures[j] = max_retries - 1
====
